---- MODULE Spec2Model ----
(***************************************************************************)
(* NYE countdown frontend: the JSON-RPC WebSocket transport                *)
(* (websocket.service.ts) and the services built on it (reaction, greeting *)
(* and time-sync).  One action is one event-loop task: a handler together  *)
(* with the promise continuations (microtasks) that it wakes.              *)
(* Times are in milliseconds; offsets are kept in half milliseconds,       *)
(* because round_trip_ms / 2 is a floating point division.                 *)
(***************************************************************************)
EXTENDS Integers, Sequences, FiniteSets, TLC

\* ---------------------------------------------------------------- bounds
MaxCalls == 2
MaxAttempts == 3
MaxElapsed == 15000
MaxInvocations == 3
MaxGreetings == 2
SyncStart == 1000
MaxNotifications == 3
MaxNotify == 1
MaxCountdown == 70000
MaxCelebrations == 2

\* ------------------------------------------------------ program constants
RECONNECT_DELAY_MS == 5000
RPC_TIMEOUT_MS == 10000
REACTION_MIN_SEND_INTERVAL_MS == 200
GREETING_MIN_SEND_INTERVAL_MS == 5000
PING_INTERVAL_MS == 1000
SIMULATION_DURATION_MS == 65000
UPDATE_INTERVAL_MS == 100

VARIABLES
  \* ---- environment
  now,               \* Date.now()
  ready,             \* readyState of every WebSocket object created so far
  attempts,          \* number of `new WebSocket` evaluations so far
  task,              \* socket whose error handler ran and whose close
                     \* handler is still to run in the same task; 0 if none
  \* ---- WebSocketService
  ws,                \* ws: 0 is null, else a socket
  reconnect_timeout, \* reconnect_timeout: 0 is null, else a timer handle
  rtimers,           \* live reconnect timers: records [id, due]
  n_rt,              \* timer handles handed out for reconnects so far
  is_connected,      \* _is_connected
  effect_dirty,      \* TimeSyncService's effect on is_connected is scheduled
  request_id,        \* request_id
  pending_requests,  \* keys of pending_requests
  calls,             \* per request id: the promise and timer made by call()
  call_threw,        \* history: the last call() threw at line 82
  sent,              \* history: the frames given to ws.send, in order
  notified,          \* history: what the last notify() did
  late,              \* history: the request ids whose response arrived after
                     \* the call had timed out
  observers,         \* the observers of notifications$, per subscriber
  arrived,           \* history: the messages given to notifications$, in
                     \* wire order, as [method, id] (0: no id); the params
                     \* of a message is its index here
  destroyed,         \* ngOnDestroy has run
  \* ---- ReactionService
  r_last_sent_ts,    \* last_sent_ts
  r_is_sending,      \* _is_sending
  r_log,             \* history: the send_reaction invocations so far
  \* ---- GreetingService
  g_last_sent_ts,    \* last_sent_ts
  g_is_sending,      \* _is_sending
  g_is_locating,     \* _is_locating
  g_error,           \* _geolocation_error
  g_last_location,   \* _last_location
  geo_available,     \* 'geolocation' in navigator
  geo_waits,         \* send_greeting invocations suspended at line 93
  g_log,             \* history: the send_greeting invocations so far
  \* ---- TimeSyncService
  sync_alive,        \* the service has been constructed
  offset_ms_x2,      \* _offset_ms, in half milliseconds
  is_ntp_synced,     \* _is_ntp_synced
  ping_interval,     \* ping_interval: 0 is null, else a timer handle
  ptimers,           \* live setInterval timers: records [id, due]
  n_pt,              \* interval handles handed out so far
  storage,           \* localStorage[STORAGE_KEY]
  storage_ok,        \* localStorage can be written
  storage0,          \* history: localStorage[STORAGE_KEY] at construction
  samples,           \* history: the number of successful ping samples and
                     \* the last of them
  \* ---- CountdownComponent
  target_ts_ms,        \* config.target_ts_ms()
  c_is_celebrating,    \* is_celebrating
  c_is_simulating,     \* is_simulating
  c_simulation_start_ts, \* simulation_start_ts
  c_total_ms_x2,       \* time_remaining().total_ms, in half milliseconds
  c_started            \* history: the invocations of start_celebration

env_vars == <<now, ready, attempts, task>>
notification_vars == <<observers, arrived>>
socket_vars == <<ws, reconnect_timeout, rtimers, n_rt, destroyed,
                 notification_vars>>
signal_vars == <<is_connected, effect_dirty>>
wire_vars == <<sent, notified, late>>
call_vars == <<request_id, pending_requests, calls, call_threw, wire_vars>>
transport_vars == <<socket_vars, signal_vars, call_vars>>
reaction_vars == <<r_last_sent_ts, r_is_sending, r_log>>
greeting_vars == <<g_last_sent_ts, g_is_sending, g_is_locating, g_error,
                   g_last_location, geo_available, geo_waits, g_log>>
sync_vars == <<sync_alive, offset_ms_x2, is_ntp_synced,
               ping_interval, ptimers, n_pt, storage, storage_ok, storage0,
               samples>>

countdown_vars == <<target_ts_ms, c_is_celebrating, c_is_simulating,
                    c_simulation_start_ts, c_total_ms_x2, c_started>>

vars == <<env_vars, transport_vars, reaction_vars, greeting_vars, sync_vars,
          countdown_vars>>

\* Date.now() when the services are constructed
StartTime == 2 * RPC_TIMEOUT_MS
MaxTime == StartTime + MaxElapsed

Ids == 1..MaxCalls
Sockets == 1..MaxAttempts
\* the subscriptions a component holds: the overlay component subscribes twice
Subscribers == {"first", "second"}

\* a component that has not subscribed to an on_notification(...) stream:
\* `state` is "idle", "on" (subscribed) or "off" (unsubscribed), `since` is
\* the number of notifications that had come in when it subscribed, `got` is
\* what its callback has been given while it is subscribed
NoObserver == [state |-> "idle", method |-> "none", since |-> 0, got |-> <<>>]

\* readyState: CONNECTING, OPEN, CLOSING, CLOSED ("unused": never created)
ReadyStates == {"unused", "connecting", "open", "closing", "closed"}

\* A request id that call() has not allocated yet.
NoCall == [owner |-> "none", sock |-> 0, at |-> 0, due |-> 0, timer |-> "none",
           settles |-> 0, outcome |-> "none", by |-> 0, val |-> 0,
           flag |-> FALSE, reason |-> [message |-> "none"],
           peer |-> [code |-> 0, message |-> "none"]]

\* new Error(message): an Error has a message and no code
Error(message) == [message |-> message]

Min(S) == CHOOSE x \in S : \A y \in S : x <= y

\* ------------------------------------------------- promises and wake-ups

\* resolve/reject invoked on the promise of a call: a promise keeps its first
\* settlement, `settles` counts the invocations.
Settle(c, outcome, by, val, flag) ==
  [c EXCEPT !.settles = @ + 1,
            !.outcome = IF @ = "none" THEN outcome ELSE @,
            !.by = IF c.outcome = "none" THEN by ELSE @,
            !.val = IF c.outcome = "none" THEN val ELSE @,
            !.flag = IF c.outcome = "none" THEN flag ELSE @,
            !.reason = IF c.outcome # "none" THEN @
                       ELSE IF outcome = "timeout" THEN Error("RPC timeout")
                       ELSE IF outcome = "disconnected"
                         THEN Error("WebSocket disconnected")
                       ELSE @]

\* The calls whose promise this step settles: their awaiting callers resume
\* in the microtasks that follow the handler.
Woken == {i \in Ids : calls[i].outcome = "none" /\ calls'[i].outcome # "none"}

\* String(e) of the Error a failed call rejects with.
ErrorString(outcome) ==
  CASE outcome = "timeout" -> "Error: RPC timeout for method: greeting.send"
    [] outcome = "disconnected" -> "Error: WebSocket disconnected"
    [] outcome = "remote_error" -> "Error: remote"
    [] OTHER -> "Error"

\* send_reaction resumed after `await this.ws.call(...)`.
ReactionWake ==
  /\ r_is_sending' = IF \E i \in Woken : calls[i].owner = "reaction"
                       THEN FALSE ELSE r_is_sending
  /\ UNCHANGED <<r_last_sent_ts, r_log>>

\* faulty variant: the flags are cleared on success only (no finally block)
GreetingWake_no_finally ==
  LET W == {i \in Woken : calls[i].owner = "greeting"}
      Ok == {i \in W : calls'[i].outcome = "success" /\ calls'[i].flag}
      Bad == {i \in W : calls'[i].outcome # "success"}
  IN /\ g_last_location' = IF Ok # {}
                             THEN calls'[CHOOSE i \in Ok : \A j \in Ok : j <= i].val
                             ELSE g_last_location
     /\ g_error' = IF Bad # {}
                     THEN ErrorString(calls'[CHOOSE i \in Bad : \A j \in Bad : j <= i].outcome)
                     ELSE g_error
     /\ g_is_locating' = IF Ok # {} THEN FALSE ELSE g_is_locating
     /\ g_is_sending' = IF Ok # {} THEN FALSE ELSE g_is_sending
     /\ UNCHANGED <<g_last_sent_ts, geo_available, geo_waits, g_log>>

\* send_greeting resumed after `await this.ws.call(...)`.
GreetingWake ==
  LET W == {i \in Woken : calls[i].owner = "greeting"}
      Ok == {i \in W : calls'[i].outcome = "success" /\ calls'[i].flag}
      Bad == {i \in W : calls'[i].outcome # "success"}
  IN /\ g_last_location' = IF Ok # {}
                             THEN calls'[CHOOSE i \in Ok : \A j \in Ok : j <= i].val
                             ELSE g_last_location
     /\ g_error' = IF Bad # {}
                     THEN ErrorString(calls'[CHOOSE i \in Bad : \A j \in Bad : j <= i].outcome)
                     ELSE g_error
     /\ g_is_locating' = IF W # {} THEN FALSE ELSE g_is_locating
     /\ g_is_sending' = IF W # {} THEN FALSE ELSE g_is_sending
     /\ UNCHANGED <<g_last_sent_ts, geo_available, geo_waits, g_log>>

round_trip_ms(request_ts, response_ts) == response_ts - request_ts

\* round_trip_ms / 2, in half milliseconds
estimated_latency_x2(rtt) == rtt

\* request_ts + estimated_latency_ms, in half milliseconds
local_time_at_server_x2(request_ts, response_ts) ==
  2 * request_ts + estimated_latency_x2(round_trip_ms(request_ts, response_ts))

\* faulty variant: the whole round trip is taken as the latency
pong_offset_x2_whole_rtt(server_time_ms, request_ts, response_ts) ==
  2 * server_time_ms
    - (2 * request_ts + 2 * round_trip_ms(request_ts, response_ts))

\* the offset handle_pong_message computes, in half milliseconds
pong_offset_x2(server_time_ms, request_ts, response_ts) ==
  2 * server_time_ms - local_time_at_server_x2(request_ts, response_ts)

\* localStorage[STORAGE_KEY]: no item, the empty string, text that is not
\* JSON, or the JSON text of a number (in half milliseconds)
NoItem == [kind |-> "absent", num |-> 0]
StoredItems(nums) ==
  {NoItem, [kind |-> "empty", num |-> 0], [kind |-> "corrupt", num |-> 0]}
    \cup {[kind |-> "json", num |-> n] : n \in nums}

\* faulty variant: an offset that is already stored is not overwritten
store_offset_kept(offset_x2) ==
  storage' = IF storage_ok /\ storage.kind # "json"
               THEN [kind |-> "json", num |-> offset_x2] ELSE storage

\* store_offset: JSON.stringify of the number, unless localStorage throws
store_offset(offset_x2) ==
  storage' = IF storage_ok THEN [kind |-> "json", num |-> offset_x2] ELSE storage

\* load_stored_offset: JSON.parse of a non-empty stored string, else 0
\* faulty variant: the stored offset is not used
load_stored_offset_ignored(stored) == 0

load_stored_offset(stored) ==
  IF stored.kind = "json" THEN stored.num ELSE 0

handle_pong_message(server_time_ms, ntp_synced, request_ts, response_ts) ==
  LET offset == pong_offset_x2(server_time_ms, request_ts, response_ts)
  IN /\ offset_ms_x2' = offset
     /\ is_ntp_synced' = ntp_synced
     /\ store_offset(offset)
     /\ samples' = [n |-> samples.n + 1, s |-> request_ts, r |-> response_ts,
                    T |-> server_time_ms, ntp |-> ntp_synced]

\* faulty variant: a failed ping resets the estimate
SyncWake_failure_resets ==
  LET W == {i \in Woken : calls[i].owner = "ping" /\ calls'[i].outcome = "success"}
      F == {i \in Woken : calls[i].owner = "ping" /\ calls'[i].outcome # "success"}
  IN /\ IF W = {}
          THEN /\ offset_ms_x2' = IF F # {} THEN 0 ELSE offset_ms_x2
               /\ is_ntp_synced' = IF F # {} THEN FALSE ELSE is_ntp_synced
               /\ UNCHANGED <<storage, samples>>
          ELSE LET i == CHOOSE i \in W : TRUE
               IN handle_pong_message(calls'[i].val, calls'[i].flag, calls[i].at, now)
     /\ UNCHANGED <<sync_alive, ping_interval, ptimers, n_pt, storage_ok, storage0>>

\* faulty variant: the result of any call is taken as a pong
SyncWake_any ==
  LET W == {i \in Woken : calls'[i].outcome = "success"}
  IN /\ IF W = {}
          THEN UNCHANGED <<offset_ms_x2, is_ntp_synced, storage, samples>>
          ELSE LET i == CHOOSE i \in W : TRUE
               IN handle_pong_message(calls'[i].val, calls'[i].flag, calls[i].at, now)
     /\ UNCHANGED <<sync_alive, ping_interval, ptimers, n_pt, storage_ok, storage0>>

\* faulty variant: the pong of a ping older than the last sample is dropped
SyncWake_newest ==
  LET W == {i \in Woken : /\ calls[i].owner = "ping"
                          /\ calls'[i].outcome = "success"
                          /\ (samples.n > 0 => calls[i].at >= samples.s)}
  IN /\ IF W = {}
          THEN UNCHANGED <<offset_ms_x2, is_ntp_synced, storage, samples>>
          ELSE LET i == CHOOSE i \in W : TRUE
               IN handle_pong_message(calls'[i].val, calls'[i].flag, calls[i].at, now)
     /\ UNCHANGED <<sync_alive, ping_interval, ptimers, n_pt, storage_ok, storage0>>

\* send_ping resumed after `await this.ws.call(...)`: failures are swallowed.
SyncWake ==
  LET W == {i \in Woken : calls[i].owner = "ping" /\ calls'[i].outcome = "success"}
  IN /\ IF W = {}
          THEN UNCHANGED <<offset_ms_x2, is_ntp_synced, storage, samples>>
          ELSE LET i == CHOOSE i \in W : TRUE
               IN handle_pong_message(calls'[i].val, calls'[i].flag, calls[i].at, now)
     /\ UNCHANGED <<sync_alive, ping_interval, ptimers, n_pt, storage_ok, storage0>>

Wake == ReactionWake /\ GreetingWake /\ SyncWake

get_synced_time_ms_x2 == 2 * now + offset_ms_x2

\* ------------------------------------------------------ WebSocketService

\* _is_connected.set(v): a signal notifies its effects when the value changes
SetConnected(v) ==
  /\ is_connected' = v
  /\ effect_dirty' = (effect_dirty \/ (sync_alive /\ is_connected # v))

\* the guard of call() and notify(): this.ws && readyState === OPEN
IsOpen == ws # 0 /\ ready[ws] = "open"

\* the method of the frames a caller sends
MethodOf(owner) ==
  CASE owner = "reaction" -> "reaction.send"
    [] owner = "greeting" -> "greeting.send"
    [] owner = "ping" -> "time.ping"
    [] OTHER -> "any"

\* faulty variant: the id is not incremented once it is 1
CallAccept_same_id(owner) ==
  LET id == IF request_id = 0 THEN 1 ELSE request_id
  IN /\ request_id' = id
     /\ pending_requests' = pending_requests \cup {id}
     /\ calls' = [calls EXCEPT ![id] =
                    [NoCall EXCEPT !.owner = owner, !.sock = ws, !.at = now,
                                   !.due = now + RPC_TIMEOUT_MS, !.timer = "armed"]]
     /\ sent' = Append(sent, [sock |-> ws, id |-> id, method |-> MethodOf(owner)])
     /\ call_threw' = FALSE
     /\ UNCHANGED <<notified, late>>

\* call(), lines 85-108: a fresh id, the pending entry, the send, the timer
CallAccept(owner) ==
  /\ request_id' = request_id + 1
  /\ pending_requests' = pending_requests \cup {request_id + 1}
  /\ calls' = [calls EXCEPT ![request_id + 1] =
                 [NoCall EXCEPT !.owner = owner, !.sock = ws, !.at = now,
                                !.due = now + RPC_TIMEOUT_MS, !.timer = "armed"]]
  /\ sent' = Append(sent, [sock |-> ws, id |-> request_id + 1,
                           method |-> MethodOf(owner)])
  /\ call_threw' = FALSE
  /\ UNCHANGED <<notified, late>>

\* call(), lines 81-83: throws 'WebSocket not connected'
CallThrow ==
  /\ call_threw' = TRUE
  /\ UNCHANGED <<request_id, pending_requests, calls, wire_vars>>

\* faulty variant: call() does not look at the connection
call_unguarded(owner) == CallAccept(owner)

call(owner) == IF IsOpen THEN CallAccept(owner) ELSE CallThrow

\* faulty variant: the response is given to the oldest pending request
PendingGet_oldest(id) ==
  IF pending_requests = {} THEN 0 ELSE Min(pending_requests)

\* pending_requests.get(id): 0 is undefined
PendingGet(id) == IF id \in pending_requests THEN id ELSE 0

\* faulty variant: the failure is built from a fixed text
rejection_fixed(error) == Error("RPC error")

\* handle_message, line 194: new Error(message.error.message)
rejection(error) == Error(error.message)

\* handle_message on a message that has an id
handle_response(msg) ==
  LET pending == PendingGet(msg.id)
  IN IF pending # 0
       THEN /\ pending_requests' = pending_requests \ {msg.id}
            /\ calls' = [calls EXCEPT ![pending] =
                           IF msg.kind = "error"
                             THEN [Settle(@, "remote_error", msg.id, msg.val, FALSE)
                                     EXCEPT !.reason = rejection(msg.error),
                                            !.peer = msg.error]
                             ELSE Settle(@, "success", msg.id, msg.val, msg.flag)]
            /\ UNCHANGED <<request_id, call_threw, wire_vars>>
       ELSE /\ late' = IF msg.id \in Ids /\ calls[msg.id].outcome = "timeout"
                         THEN late \cup {msg.id} ELSE late
            /\ UNCHANGED <<request_id, pending_requests, calls, call_threw,
                           sent, notified>>

\* faulty variant: the timer rejects without looking at pending_requests
timeout_callback_unguarded(id) ==
  /\ pending_requests' = pending_requests \ {id}
  /\ calls' = [calls EXCEPT ![id] =
                 Settle([@ EXCEPT !.timer = "fired"], "timeout", 0, 0, FALSE)]

\* faulty variant: the timer rejects and leaves the entry in the map
timeout_callback_keeps(id) ==
  /\ pending_requests' = pending_requests
  /\ calls' = [calls EXCEPT ![id] =
                 IF id \in pending_requests
                   THEN Settle([@ EXCEPT !.timer = "fired"], "timeout", 0, 0, FALSE)
                   ELSE [@ EXCEPT !.timer = "fired"]]

\* faulty variant: the timer rejects every pending request
timeout_callback_all(id) ==
  IF id \in pending_requests
    THEN /\ pending_requests' = {}
         /\ calls' = [i \in Ids |->
                        IF i \in pending_requests
                          THEN Settle([calls[i] EXCEPT !.timer = "fired"],
                                      "timeout", 0, 0, FALSE)
                          ELSE calls[i]]
    ELSE /\ pending_requests' = pending_requests
         /\ calls' = [calls EXCEPT ![id].timer = "fired"]

\* the setTimeout callback of call(), lines 102-107
timeout_callback(id) ==
  IF id \in pending_requests
    THEN /\ pending_requests' = pending_requests \ {id}
         /\ calls' = [calls EXCEPT ![id] =
                        Settle([@ EXCEPT !.timer = "fired"], "timeout", 0, 0, FALSE)]
    ELSE /\ pending_requests' = pending_requests
         /\ calls' = [calls EXCEPT ![id].timer = "fired"]

\* faulty variant: the entries are rejected but stay in the map
reject_pending_requests_keep ==
  /\ calls' = [i \in Ids |-> IF i \in pending_requests
                               THEN Settle(calls[i], "disconnected", 0, 0, FALSE)
                               ELSE calls[i]]
  /\ UNCHANGED <<pending_requests, request_id, call_threw, wire_vars>>

reject_pending_requests ==
  /\ calls' = [i \in Ids |-> IF i \in pending_requests
                               THEN Settle(calls[i], "disconnected", 0, 0, FALSE)
                               ELSE calls[i]]
  /\ pending_requests' = {}
  /\ UNCHANGED <<request_id, call_threw, wire_vars>>

\* faulty variant: the method filter lets every notification through
matches_all(observer, method) == TRUE

\* on_notification(method): filter((n) => n.method === method)
matches(observer, method) == observer.method = method

\* notifications$.next(n): every observer that is subscribed is given, through
\* filter and map, the params of a notification of its method
notifications_next(msg, params) ==
  /\ observers' = [u \in Subscribers |->
                     IF /\ observers[u].state = "on"
                        /\ matches(observers[u], msg.method)
                       THEN [observers[u] EXCEPT !.got = Append(@, params)]
                       ELSE observers[u]]
  /\ arrived' = Append(arrived, [method |-> msg.method, id |-> msg.id])

\* a message has an id: 'id' in message && message.id !== undefined
has_id(msg) == msg.id # 0

\* faulty variant: a message that has a method is taken as a notification
\* even if it has an id
is_response_unless_method(msg) == msg.id # 0 /\ msg.method = "none"

\* handle_message, line 189: the message is taken as a response
is_response(msg) == has_id(msg)

\* handle_message: a response goes to its pending request, a message with a
\* method and no id goes to the observers, anything else is ignored
handle_message(msg) ==
  IF is_response(msg)
    THEN /\ handle_response(msg)
         /\ UNCHANGED notification_vars
    ELSE IF msg.method # "none"
    THEN /\ notifications_next(msg, Len(arrived) + 1)
         /\ UNCHANGED call_vars
    ELSE UNCHANGED <<call_vars, notification_vars>>

\* faulty variant: notify() sends without looking at the connection
notify_unguarded(method) ==
  /\ sent' = Append(sent, [sock |-> ws, id |-> 0, method |-> method])
  /\ notified' = IF IsOpen THEN "sent" ELSE "dropped"
  /\ UNCHANGED <<request_id, pending_requests, calls, call_threw, late>>

\* notify(method, params)
notify(method) ==
  /\ IF IsOpen
       THEN /\ sent' = Append(sent, [sock |-> ws, id |-> 0, method |-> method])
            /\ notified' = "sent"
       ELSE /\ notified' = "dropped"
            /\ UNCHANGED sent
  /\ UNCHANGED <<request_id, pending_requests, calls, call_threw, late>>

\* faulty variant: the reconnect is given up after the first retry
schedule_reconnect_capped(live) ==
  IF n_rt >= 1
    THEN /\ rtimers' = live
         /\ UNCHANGED <<reconnect_timeout, n_rt>>
    ELSE /\ rtimers' = {t \in live : reconnect_timeout = 0 \/ t.id # reconnect_timeout}
                         \cup {[id |-> n_rt + 1, due |-> now + RECONNECT_DELAY_MS]}
         /\ reconnect_timeout' = n_rt + 1
         /\ n_rt' = n_rt + 1

\* faulty variant: the pending timer is not cleared
schedule_reconnect_no_clear(live) ==
  /\ rtimers' = live \cup {[id |-> n_rt + 1, due |-> now + RECONNECT_DELAY_MS]}
  /\ reconnect_timeout' = n_rt + 1
  /\ n_rt' = n_rt + 1

\* schedule_reconnect, given the timers that are live when it is called
schedule_reconnect(live) ==
  /\ rtimers' = {t \in live : reconnect_timeout = 0 \/ t.id # reconnect_timeout}
                  \cup {[id |-> n_rt + 1, due |-> now + RECONNECT_DELAY_MS]}
  /\ reconnect_timeout' = n_rt + 1
  /\ n_rt' = n_rt + 1

\* connect(), given the timers that are live when it is called; `throws`:
\* whether `new WebSocket` throws
connect(live, throws) ==
  IF ws # 0 /\ ready[ws] = "open"
    THEN /\ rtimers' = live
         /\ UNCHANGED <<ws, ready, attempts, reconnect_timeout, n_rt>>
    ELSE /\ attempts' = attempts + 1
         /\ IF throws
              THEN /\ schedule_reconnect(live)
                   /\ UNCHANGED <<ws, ready>>
              ELSE /\ ws' = attempts + 1
                   /\ ready' = [ready EXCEPT ![attempts + 1] = "connecting"]
                   /\ rtimers' = live
                   /\ UNCHANGED <<reconnect_timeout, n_rt>>

\* ws.onopen
OnOpen(s) ==
  /\ task = 0
  /\ ready[s] = "connecting"
  /\ ready' = [ready EXCEPT ![s] = "open"]
  /\ SetConnected(TRUE)
  /\ UNCHANGED <<now, attempts, task, socket_vars, call_vars, reaction_vars,
                 greeting_vars, sync_vars>>
  /\ UNCHANGED countdown_vars

\* the peer starts the closing handshake: readyState becomes CLOSING
PeerClosing(s) ==
  /\ task = 0
  /\ ready[s] = "open"
  /\ ready' = [ready EXCEPT ![s] = "closing"]
  /\ UNCHANGED <<now, attempts, task, socket_vars, signal_vars, call_vars,
                 reaction_vars, greeting_vars, sync_vars>>
  /\ UNCHANGED countdown_vars

\* faulty variant: the close handler forgets to schedule the reconnect
onclose_handler_no_reconnect ==
  /\ SetConnected(FALSE)
  /\ reject_pending_requests
  /\ Wake
  /\ UNCHANGED <<ws, destroyed, notification_vars, rtimers, reconnect_timeout,
                 n_rt>>

\* the body of ws.onclose
onclose_handler ==
  /\ SetConnected(FALSE)
  /\ reject_pending_requests
  /\ schedule_reconnect(rtimers)
  /\ Wake
  /\ UNCHANGED <<ws, destroyed, notification_vars>>

\* the connection is closed cleanly: readyState CLOSED, then ws.onclose
OnClose(s) ==
  /\ task = 0
  /\ ready[s] \in {"open", "closing"}
  /\ ready' = [ready EXCEPT ![s] = "closed"]
  /\ onclose_handler
  /\ UNCHANGED <<now, attempts, task>>
  /\ UNCHANGED countdown_vars

\* the connection fails: readyState CLOSED, then ws.onerror; ws.onclose
\* follows in the same task
OnError(s) ==
  /\ task = 0
  /\ ready[s] \in {"connecting", "open", "closing"}
  /\ ready' = [ready EXCEPT ![s] = "closed"]
  /\ task' = s
  /\ SetConnected(FALSE)
  /\ UNCHANGED <<now, attempts, socket_vars, call_vars, reaction_vars,
                 greeting_vars, sync_vars>>
  /\ UNCHANGED countdown_vars

\* ws.onclose after ws.onerror
OnCloseAfterError(s) ==
  /\ task = s
  /\ task' = 0
  /\ onclose_handler
  /\ UNCHANGED <<now, ready, attempts>>
  /\ UNCHANGED countdown_vars

\* ws.onmessage with a response
OnResponse(s, msg) ==
  /\ task = 0
  /\ ready[s] \in {"open", "closing"}
  /\ handle_response(msg)
  /\ Wake
  /\ UNCHANGED <<env_vars, socket_vars, signal_vars>>
  /\ UNCHANGED countdown_vars

\* the timeout timer of call `id` fires
Timeout(id) ==
  /\ task = 0
  /\ calls[id].timer = "armed"
  /\ calls[id].due <= now
  /\ timeout_callback(id)
  /\ Wake
  /\ UNCHANGED <<env_vars, socket_vars, signal_vars, request_id, call_threw,
                 wire_vars>>
  /\ UNCHANGED countdown_vars

\* faulty variant: the reconnect timer is an interval timer
Reconnect_interval(t, throws) ==
  /\ task = 0
  /\ t \in rtimers
  /\ t.due <= now
  /\ attempts < MaxAttempts
  /\ connect((rtimers \ {t}) \cup {[t EXCEPT !.due = @ + RECONNECT_DELAY_MS]},
             throws)
  /\ UNCHANGED <<now, task, destroyed, notification_vars, signal_vars,
                 call_vars, reaction_vars, greeting_vars, sync_vars>>
  /\ UNCHANGED countdown_vars

\* the reconnect timer fires: connect()
Reconnect(t, throws) ==
  /\ task = 0
  /\ t \in rtimers
  /\ t.due <= now
  /\ attempts < MaxAttempts
  /\ connect(rtimers \ {t}, throws)
  /\ UNCHANGED <<now, task, destroyed, notification_vars, signal_vars,
                 call_vars, reaction_vars, greeting_vars, sync_vars>>
  /\ UNCHANGED countdown_vars

\* connect() is invoked, whatever the state of the connection
Connect(throws) ==
  /\ task = 0
  /\ attempts < MaxAttempts
  /\ connect(rtimers, throws)
  /\ UNCHANGED <<now, task, destroyed, notification_vars, signal_vars,
                 call_vars, reaction_vars, greeting_vars, sync_vars>>
  /\ UNCHANGED countdown_vars

\* ngOnDestroy: disconnect()
Destroy ==
  /\ task = 0
  /\ ~destroyed
  /\ destroyed' = TRUE
  /\ rtimers' = IF reconnect_timeout # 0
                  THEN {t \in rtimers : t.id # reconnect_timeout} ELSE rtimers
  /\ reconnect_timeout' = 0
  /\ ready' = IF ws # 0 /\ ready[ws] \in {"connecting", "open"}
                THEN [ready EXCEPT ![ws] = "closing"] ELSE ready
  /\ ws' = 0
  /\ reject_pending_requests
  /\ Wake
  /\ UNCHANGED <<now, attempts, task, n_rt, notification_vars, signal_vars>>
  /\ UNCHANGED countdown_vars

\* a component calls ws.call(...) directly
Call ==
  /\ task = 0
  /\ request_id < MaxCalls
  /\ call("caller")
  /\ UNCHANGED <<env_vars, socket_vars, signal_vars, reaction_vars,
                 greeting_vars, sync_vars>>
  /\ UNCHANGED countdown_vars

\* ws.onmessage with any message: a response, a notification, a message that
\* has both an id and a method, or one that has neither
OnMessage(s, msg) ==
  /\ task = 0
  /\ ready[s] \in {"open", "closing"}
  /\ msg.method # "none" => Len(arrived) < MaxNotifications
  /\ handle_message(msg)
  /\ Wake
  /\ UNCHANGED <<env_vars, ws, reconnect_timeout, rtimers, n_rt, destroyed,
                 signal_vars>>
  /\ UNCHANGED countdown_vars

\* a component calls ws.notify(method, ...)
Notify(method) ==
  /\ task = 0
  /\ IsOpen => Cardinality({k \in 1..Len(sent) : sent[k].id = 0}) < MaxNotify
  /\ notify(method)
  /\ UNCHANGED <<env_vars, socket_vars, signal_vars, reaction_vars,
                 greeting_vars, sync_vars>>
  /\ UNCHANGED countdown_vars

\* faulty variant: the stream replays what came in before the subscription
Subscribe_replay(u, method) ==
  /\ task = 0
  /\ observers[u].state = "idle"
  /\ observers' = [observers EXCEPT ![u] =
                     [@ EXCEPT !.state = "on", !.method = method, !.since = 0,
                               !.got = SelectSeq([k \in 1..Len(arrived) |-> k],
                                         LAMBDA k : arrived[k].method = method)]]
  /\ UNCHANGED <<env_vars, ws, reconnect_timeout, rtimers, n_rt, destroyed,
                 arrived, signal_vars, call_vars, reaction_vars, greeting_vars,
                 sync_vars>>
  /\ UNCHANGED countdown_vars

\* a component subscribes to on_notification(method)
Subscribe(u, method) ==
  /\ task = 0
  /\ observers[u].state = "idle"
  /\ observers' = [observers EXCEPT ![u] =
                     [@ EXCEPT !.state = "on", !.method = method,
                               !.since = Len(arrived)]]
  /\ UNCHANGED <<env_vars, ws, reconnect_timeout, rtimers, n_rt, destroyed,
                 arrived, signal_vars, call_vars, reaction_vars, greeting_vars,
                 sync_vars>>
  /\ UNCHANGED countdown_vars

\* the component unsubscribes and goes away
Unsubscribe(u) ==
  /\ task = 0
  /\ observers[u].state = "on"
  /\ observers' = [observers EXCEPT ![u] = [NoObserver EXCEPT !.state = "off"]]
  /\ UNCHANGED <<env_vars, ws, reconnect_timeout, rtimers, n_rt, destroyed,
                 arrived, signal_vars, call_vars, reaction_vars, greeting_vars,
                 sync_vars>>
  /\ UNCHANGED countdown_vars

\* ---------------------------------------------------------------- time

Dues == {calls[i].due : i \in {j \in Ids : calls[j].timer = "armed"}}
          \cup {t.due : t \in rtimers} \cup {t.due : t \in ptimers}

\* time passes, by d or up to the next timer, whichever is first; timers that
\* are due and scheduled effects run first
Tick(d) ==
  /\ task = 0
  /\ ~effect_dirty
  /\ \A due \in Dues : due > now
  /\ Min(Dues \cup {now + d}) <= MaxTime
  /\ now' = Min(Dues \cup {now + d})
  /\ UNCHANGED <<ready, attempts, task, transport_vars, reaction_vars,
                 greeting_vars, sync_vars>>
  /\ UNCHANGED countdown_vars

\* time passes by d, a part of an interval of the program; the clock is
\* watched this closely only up to time `until`
ShortTick(d, until) ==
  /\ now + d <= until
  /\ Tick(d)

\* ------------------------------------------------------- specifications


\* The state after the services are constructed at time t0: the transport's
\* constructor has called connect().
InitAt(t0, stored, alive) ==
  /\ now = t0
  /\ ready = [s \in Sockets |-> IF s = 1 THEN "connecting" ELSE "unused"]
  /\ attempts = 1
  /\ task = 0
  /\ ws = 1
  /\ reconnect_timeout = 0
  /\ rtimers = {}
  /\ n_rt = 0
  /\ is_connected = FALSE
  /\ effect_dirty = alive
  /\ request_id = 0
  /\ pending_requests = {}
  /\ calls = [i \in Ids |-> NoCall]
  /\ call_threw = FALSE
  /\ sent = <<>>
  /\ notified = "none"
  /\ late = {}
  /\ observers = [u \in Subscribers |-> NoObserver]
  /\ arrived = <<>>
  /\ destroyed = FALSE
  /\ r_last_sent_ts = 0
  /\ r_is_sending = FALSE
  /\ r_log = <<>>
  /\ g_last_sent_ts = 0
  /\ g_is_sending = FALSE
  /\ g_is_locating = FALSE
  /\ g_error = "null"
  /\ g_last_location = "null"
  /\ geo_available \in BOOLEAN
  /\ geo_waits = {}
  /\ g_log = <<>>
  /\ sync_alive = alive
  /\ storage = stored
  /\ storage_ok \in BOOLEAN
  /\ storage0 = stored
  /\ offset_ms_x2 = load_stored_offset(stored)
  /\ is_ntp_synced = FALSE
  /\ ping_interval = 0
  /\ ptimers = {}
  /\ n_pt = 0
  /\ samples = [n |-> 0, s |-> 0, r |-> 0, T |-> 0, ntp |-> FALSE]
  /\ c_is_celebrating = FALSE
  /\ c_is_simulating = FALSE
  /\ c_simulation_start_ts = 0
  /\ c_total_ms_x2 = 0
  /\ c_started = 0

\* error objects of the peer: a JSON-RPC code and a message
RpcErrors == {[code |-> -32601, message |-> "Method not found"],
              [code |-> -32000, message |-> "remote"]}

\* what the server may answer
Responses(vals, flags) ==
  [id : Ids, kind : {"result", "error"}, val : vals, flag : flags,
   error : {[code |-> -32000, message |-> "remote"]}]

SocketEvents ==
  \E s \in Sockets : \/ OnOpen(s)
                     \/ PeerClosing(s)
                     \/ OnClose(s)
                     \/ OnError(s)
                     \/ OnCloseAfterError(s)

Timers ==
  \/ \E id \in Ids : Timeout(id)
  \/ \E t \in rtimers, throws \in BOOLEAN : Reconnect(t, throws)

\* a target of the countdown that no run of the model reaches
FarTarget == StartTime + 10 * SIMULATION_DURATION_MS

\* The transport alone, driven by a component that calls it directly.
Init == /\ InitAt(StartTime, NoItem, FALSE)
        /\ geo_available = TRUE
        /\ storage_ok = TRUE
        /\ target_ts_ms = FarTarget

Next ==
  \/ SocketEvents
  \/ Timers
  \/ Call
  \/ \E s \in Sockets, msg \in Responses({7}, {TRUE}) : OnResponse(s, msg)
  \/ Destroy
  \/ Tick(RECONNECT_DELAY_MS)

Spec == Init /\ [][Next]_vars

\* the methods of the notifications the services subscribe to
Methods == {"reaction.broadcast", "greeting.broadcast"}

\* what may come in: results (some of them with a method as well), errors,
\* and messages without an id, 0, with or without a method, "none"
Messages ==
  [id : Ids, method : {"none", "reaction.broadcast"}, kind : {"result"},
   val : {7}, flag : {TRUE}, error : {[code |-> 0, message |-> "none"]}]
  \cup
  [id : Ids, method : {"none"}, kind : {"error"},
   val : {0}, flag : {FALSE}, error : {[code |-> -32000, message |-> "remote"]}]
  \cup
  [id : {0}, method : Methods \cup {"none"}, kind : {"result"},
   val : {7}, flag : {TRUE}, error : {[code |-> 0, message |-> "none"]}]

\* The transport's calls, subscribers and inbound messages on the first
\* connection while it stays up (no timer fires).
DispatchNext ==
  \/ \E s \in Sockets : OnOpen(s)
  \/ Call
  \/ \E u \in Subscribers, method \in Methods : Subscribe(u, method)
  \/ \E u \in Subscribers : Unsubscribe(u)
  \/ \E s \in {x \in Sockets : ready[x] = "open"}, msg \in Messages :
       OnMessage(s, msg)

SpecDispatch == Init /\ [][DispatchNext]_vars

\* what the server may answer a call: a result or one of the error objects
Answers ==
  [id : Ids, kind : {"result"}, val : {7}, flag : {TRUE},
   error : {[code |-> 0, message |-> "none"]}]
  \cup
  [id : Ids, kind : {"error"}, val : {0}, flag : {FALSE}, error : RpcErrors]

\* The transport's calls, their answers and notify() on the first connection
\* (no timer fires).
NotifyNext ==
  \/ SocketEvents
  \/ Call
  \/ \E method \in Methods : Notify(method)
  \/ \E s \in Sockets, msg \in Answers : OnResponse(s, msg)

SpecNotify == Init /\ [][NotifyNext]_vars

\* The connection when connect() may be invoked at any time, as an operation
\* of the transport.
ConnectNext ==
  \/ SocketEvents
  \/ \E t \in rtimers, throws \in BOOLEAN : Reconnect(t, throws)
  \/ \E throws \in BOOLEAN : Connect(throws)
  \/ Tick(RECONNECT_DELAY_MS)

SpecConnect == Init /\ [][ConnectNext]_vars

\* The connection and its reconnect timer under the scheduling of the event
\* loop: time passes, a timer that is due fires, and the close event that
\* follows an error event is delivered.
ReconnectNext ==
  \/ SocketEvents
  \/ \E t \in rtimers, throws \in BOOLEAN : Reconnect(t, throws)
  \/ Destroy
  \/ Tick(RECONNECT_DELAY_MS)

ReconnectFairness ==
  /\ WF_vars(\E t \in rtimers, throws \in BOOLEAN : Reconnect(t, throws))
  /\ WF_vars(\E s \in Sockets : OnCloseAfterError(s))
  /\ WF_vars(Tick(RECONNECT_DELAY_MS))

SpecReconnect == Init /\ [][ReconnectNext]_vars /\ ReconnectFairness

\* the notifications the server broadcasts
Broadcasts == {msg \in Messages : msg.id = 0 /\ msg.method \in Methods}

\* Subscribers and the notifications that come in, over losses of the
\* connection and reconnects. What the server broadcasts while no socket is
\* open reaches no handler of the client.
ReplayNext ==
  \/ SocketEvents
  \/ \E t \in rtimers, throws \in BOOLEAN : Reconnect(t, throws)
  \/ \E u \in Subscribers, method \in Methods : Subscribe(u, method)
  \/ \E u \in Subscribers : Unsubscribe(u)
  \/ \E s \in {x \in Sockets : ready[x] = "open"}, msg \in Broadcasts :
       OnMessage(s, msg)
  \/ Tick(RECONNECT_DELAY_MS)

SpecReplay == Init /\ [][ReplayNext]_vars

\* ------------------------------------------------------- ReactionService

\* ALLOWED_EMOJIS, by name
ALLOWED_EMOJIS ==
  {"party popper", "confetti ball", "partying face", "bottle", "clinking glasses",
   "sparkles", "fireworks", "sparkler", "woman dancing", "man dancing",
   "mirror ball", "red heart"}

\* what a caller may pass as emoji
Emojis == {"party popper", "thumbs up"}

\* one entry of r_log: the invocation at time `at`, whether the socket was
\* open, how the synchronous part ended and the request id if a call was made
ReactionEntry(emoji, res, id) ==
  [at |-> now, emoji |-> emoji, open |-> IsOpen, res |-> res, id |-> id]

\* faulty variant: the timestamp is not taken when the call is issued
reaction_stamp_late(t) == UNCHANGED r_last_sent_ts

\* send_reaction, line 80: this.last_sent_ts = now
reaction_stamp(t) == r_last_sent_ts' = t

\* send_reaction(emoji), up to its `await`
SendReaction(emoji) ==
  /\ task = 0
  /\ Len(r_log) < MaxInvocations
  /\ request_id < MaxCalls
  /\ IF now - r_last_sent_ts < REACTION_MIN_SEND_INTERVAL_MS
       THEN /\ r_log' = Append(r_log, ReactionEntry(emoji, "rate_limited", 0))
            /\ UNCHANGED <<r_last_sent_ts, r_is_sending, call_vars>>
       ELSE IF ~is_connected
       THEN /\ r_log' = Append(r_log, ReactionEntry(emoji, "not_connected", 0))
            /\ UNCHANGED <<r_last_sent_ts, r_is_sending, call_vars>>
       ELSE IF emoji \notin ALLOWED_EMOJIS
       THEN /\ r_log' = Append(r_log, ReactionEntry(emoji, "invalid", 0))
            /\ UNCHANGED <<r_last_sent_ts, r_is_sending, call_vars>>
       ELSE /\ reaction_stamp(now)
            /\ call("reaction")
            /\ r_is_sending' = ~call_threw'
            /\ r_log' = Append(r_log,
                 IF call_threw' THEN ReactionEntry(emoji, "threw", 0)
                 ELSE ReactionEntry(emoji, "called", request_id'))
  /\ UNCHANGED <<env_vars, socket_vars, signal_vars, greeting_vars, sync_vars>>
  /\ UNCHANGED countdown_vars

\* The reaction service on the transport, up to the loss of the connection
\* (no reconnect).
ReactionNext ==
  \/ SocketEvents
  \/ \E id \in Ids : Timeout(id)
  \/ \E emoji \in Emojis : SendReaction(emoji)
  \/ \E s \in Sockets, msg \in Responses({0}, {TRUE}) : OnResponse(s, msg)
  \/ ShortTick(REACTION_MIN_SEND_INTERVAL_MS \div 2,
               StartTime + 3 * (REACTION_MIN_SEND_INTERVAL_MS \div 2))
  \/ Tick(RPC_TIMEOUT_MS)

SpecReaction == Init /\ [][ReactionNext]_vars

\* ------------------------------------------------------- GreetingService

\* GeolocationPositionError.code: PERMISSION_DENIED, POSITION_UNAVAILABLE,
\* TIMEOUT; 0 stands for any other code
GeoErrorCodes == {0, 1, 2, 3}

\* faulty variant: every failure is reported as the unknown one
get_geo_error_message_unknown(code) == "Location error"

get_geo_error_message(code) ==
  CASE code = 1 -> "Location permission denied"
    [] code = 2 -> "Location unavailable"
    [] code = 3 -> "Location request timed out"
    [] OTHER -> "Location error"

\* one entry of g_log: the invocation at time `at`, whether the socket was
\* open, whether it asked for the position, how far it got and the request id
\* if a call was made
GreetingEntry(res, geo) ==
  [at |-> now, open |-> IsOpen, res |-> res, geo |-> geo, id |-> 0]

\* send_greeting, lines 88-93: the checks passed, the position is asked for
greeting_checks_passed(entry) ==
  /\ g_is_locating' = TRUE
  /\ g_error' = "null"
  /\ geo_waits' = geo_waits \cup {[inv |-> Len(g_log) + 1, now |-> now]}
  /\ g_log' = Append(g_log, entry)
  /\ UNCHANGED <<g_last_sent_ts, g_is_sending, g_last_location, geo_available>>

\* send_greeting(template_index), up to `await this.get_current_position()`
SendGreeting ==
  /\ task = 0
  /\ Len(g_log) < MaxGreetings
  /\ IF now - g_last_sent_ts < GREETING_MIN_SEND_INTERVAL_MS
       THEN /\ g_log' = Append(g_log, GreetingEntry("rate_limited", FALSE))
            /\ UNCHANGED <<g_last_sent_ts, g_is_sending, g_is_locating, g_error,
                           g_last_location, geo_available, geo_waits>>
       ELSE IF ~is_connected
       THEN /\ g_error' = "Not connected to server"
            /\ g_log' = Append(g_log, GreetingEntry("not_connected", FALSE))
            /\ UNCHANGED <<g_last_sent_ts, g_is_sending, g_is_locating,
                           g_last_location, geo_available, geo_waits>>
       ELSE IF ~geo_available
       THEN /\ g_error' = "Geolocation not available"
            /\ g_log' = Append(g_log, GreetingEntry("no_geolocation", FALSE))
            /\ UNCHANGED <<g_last_sent_ts, g_is_sending, g_is_locating,
                           g_last_location, geo_available, geo_waits>>
       ELSE greeting_checks_passed(GreetingEntry("locating", TRUE))
  /\ UNCHANGED <<env_vars, transport_vars, reaction_vars, sync_vars>>
  /\ UNCHANGED countdown_vars

\* the position arrives: send_greeting runs on, up to `await this.ws.call(...)`
GeoResolve(w) ==
  /\ task = 0
  /\ w \in geo_waits
  /\ request_id < MaxCalls
  /\ geo_waits' = geo_waits \ {w}
  /\ g_last_sent_ts' = w.now
  /\ call("greeting")
  /\ g_is_locating' = FALSE
  /\ g_is_sending' = ~call_threw'
  /\ g_error' = IF call_threw' THEN "Error: WebSocket not connected" ELSE g_error
  /\ g_log' = [g_log EXCEPT ![w.inv] =
                 IF call_threw' THEN [@ EXCEPT !.res = "threw"]
                 ELSE [@ EXCEPT !.res = "called", !.id = request_id']]
  /\ UNCHANGED <<g_last_location, geo_available>>
  /\ UNCHANGED <<env_vars, socket_vars, signal_vars, reaction_vars, sync_vars>>
  /\ UNCHANGED countdown_vars

\* faulty variant: the failed invocation starts the cool-down
GeoReject_stamps(w, code) ==
  /\ task = 0
  /\ w \in geo_waits
  /\ geo_waits' = geo_waits \ {w}
  /\ g_error' = get_geo_error_message(code)
  /\ g_is_locating' = FALSE
  /\ g_is_sending' = FALSE
  /\ g_log' = [g_log EXCEPT ![w.inv].res = "geo_failed"]
  /\ g_last_sent_ts' = w.now
  /\ UNCHANGED <<g_last_location, geo_available>>
  /\ UNCHANGED <<env_vars, transport_vars, reaction_vars, sync_vars>>
  /\ UNCHANGED countdown_vars

\* the geolocation collaborator fails with a GeolocationPositionError
GeoReject(w, code) ==
  /\ task = 0
  /\ w \in geo_waits
  /\ geo_waits' = geo_waits \ {w}
  /\ g_error' = get_geo_error_message(code)
  /\ g_is_locating' = FALSE
  /\ g_is_sending' = FALSE
  /\ g_log' = [g_log EXCEPT ![w.inv].res = "geo_failed"]
  /\ UNCHANGED <<g_last_sent_ts, g_last_location, geo_available>>
  /\ UNCHANGED <<env_vars, transport_vars, reaction_vars, sync_vars>>
  /\ UNCHANGED countdown_vars

\* The greeting service on the transport during the first cool-down interval
\* (no timer fires that early).
GreetingNext ==
  \/ SocketEvents
  \/ SendGreeting
  \/ \E w \in geo_waits : GeoResolve(w)
  \/ \E w \in geo_waits, code \in GeoErrorCodes : GeoReject(w, code)
  \/ \E s \in Sockets, msg \in Responses({"Berlin"}, BOOLEAN) : OnResponse(s, msg)
  \/ ShortTick(GREETING_MIN_SEND_INTERVAL_MS \div 2,
               StartTime + GREETING_MIN_SEND_INTERVAL_MS)

SpecGreeting == Init /\ [][GreetingNext]_vars

\* ------------------------------------------------------- TimeSyncService

\* faulty variant: the NTP flag of the last sample counts without a connection
sync_status_stale ==
  IF is_ntp_synced THEN "synced"
  ELSE IF is_connected THEN "connected"
  ELSE IF offset_ms_x2 # 0 THEN "cached"
  ELSE "device"

\* the computed signal sync_status
sync_status ==
  IF is_connected /\ is_ntp_synced THEN "synced"
  ELSE IF is_connected THEN "connected"
  ELSE IF offset_ms_x2 # 0 THEN "cached"
  ELSE "device"

\* faulty variant: the interval is not cleared
stop_ping_loop_none(live) == live

\* stop_ping_loop, given the interval timers that are live
stop_ping_loop(live) ==
  IF ping_interval # 0 THEN {t \in live : t.id # ping_interval} ELSE live

\* faulty variant: send_ping does not look at is_connected
send_ping_unguarded == call("ping")

\* send_ping up to its `await`: a call that throws is swallowed
send_ping ==
  IF ~is_connected THEN UNCHANGED call_vars ELSE call("ping")

\* the effect of the constructor runs: start_ping_loop or stop_ping_loop
RunEffect ==
  /\ task = 0
  /\ effect_dirty
  /\ is_connected /\ IsOpen => request_id < MaxCalls
  /\ effect_dirty' = FALSE
  /\ IF is_connected
       THEN /\ send_ping
            /\ ping_interval' = n_pt + 1
            /\ n_pt' = n_pt + 1
            /\ ptimers' = stop_ping_loop(ptimers)
                            \cup {[id |-> n_pt + 1, due |-> now + PING_INTERVAL_MS]}
       ELSE /\ ptimers' = stop_ping_loop(ptimers)
            /\ ping_interval' = 0
            /\ UNCHANGED <<n_pt, call_vars>>
  /\ UNCHANGED <<env_vars, socket_vars, is_connected, reaction_vars, greeting_vars,
                 sync_alive, offset_ms_x2, is_ntp_synced, storage, storage_ok,
                 storage0, samples>>
  /\ UNCHANGED countdown_vars

\* the setInterval callback of start_ping_loop
PingFire(t) ==
  /\ task = 0
  /\ t \in ptimers
  /\ t.due <= now
  /\ is_connected /\ IsOpen => request_id < MaxCalls
  /\ send_ping
  /\ ptimers' = (ptimers \ {t}) \cup {[t EXCEPT !.due = @ + PING_INTERVAL_MS]}
  /\ UNCHANGED <<env_vars, socket_vars, signal_vars, reaction_vars, greeting_vars,
                 sync_alive, offset_ms_x2, is_ntp_synced, ping_interval, n_pt,
                 storage, storage_ok, storage0, samples>>
  /\ UNCHANGED countdown_vars

\* ngOnDestroy of the service: stop_ping_loop; the effect is destroyed with
\* the injector of the service
SyncDestroy ==
  /\ task = 0
  /\ sync_alive
  /\ sync_alive' = FALSE
  /\ effect_dirty' = FALSE
  /\ ptimers' = stop_ping_loop(ptimers)
  /\ ping_interval' = 0
  /\ UNCHANGED <<env_vars, socket_vars, is_connected, call_vars, reaction_vars,
                 greeting_vars, offset_ms_x2, is_ntp_synced, n_pt, storage,
                 storage_ok, storage0, samples>>
  /\ UNCHANGED countdown_vars

\* what localStorage may hold when the service is constructed
StoredAtStart == StoredItems({2 * 250})

\* server_time_ms of a pong
ServerTimes == {900, 5000}

\* The time-sync service on the transport, constructed at SyncStart, during
\* the first two ping intervals (no reconnect or timeout comes that early).
SyncInit ==
  /\ \E stored \in StoredAtStart : InitAt(SyncStart, stored, TRUE)
  /\ geo_available = TRUE
  /\ target_ts_ms = FarTarget

SyncNext ==
  \/ SocketEvents
  \/ RunEffect
  \/ \E t \in ptimers : PingFire(t)
  \/ \E s \in Sockets, msg \in Responses(ServerTimes, BOOLEAN) : OnResponse(s, msg)
  \/ ShortTick(1, SyncStart + 1)
  \/ ShortTick(100, SyncStart + 301)
  \/ ShortTick(PING_INTERVAL_MS, SyncStart + 2 * PING_INTERVAL_MS)

SpecSync == SyncInit /\ [][SyncNext]_vars

\* The ping loop on the first connection, from the construction of the service
\* until the first ping has timed out (no reconnect).
PingInit ==
  /\ InitAt(SyncStart, [kind |-> "json", num |-> 2 * 250], TRUE)
  /\ geo_available = TRUE
  /\ storage_ok = TRUE
  /\ target_ts_ms = FarTarget

PingNext ==
  \/ SocketEvents
  \/ RunEffect
  \/ \E t \in ptimers : PingFire(t)
  \/ \E id \in Ids : Timeout(id)
  \/ \E s \in Sockets, msg \in Responses({5000}, {TRUE}) : OnResponse(s, msg)
  \/ ShortTick(PING_INTERVAL_MS, SyncStart + RPC_TIMEOUT_MS + PING_INTERVAL_MS)

SpecPing == PingInit /\ [][PingNext]_vars

\* All services on the first connection at one instant: reactions and
\* greetings (each invoked when none of its kind is under way), notify(), a
\* subscriber, the first ping, and whatever comes in.
FrameInit ==
  /\ InitAt(StartTime, [kind |-> "json", num |-> 2 * 250], TRUE)
  /\ geo_available = TRUE
  /\ storage_ok = TRUE
  /\ target_ts_ms = FarTarget

Incoming ==
  {msg \in Messages : (msg.id = 0) = (msg.method = "reaction.broadcast")}

FrameNext ==
  \/ \E s \in Sockets : OnOpen(s)
  \/ RunEffect
  \/ ~r_is_sending /\ SendReaction("party popper")
  \/ ~g_is_locating /\ ~g_is_sending /\ SendGreeting
  \/ \E w \in geo_waits : GeoResolve(w)
  \/ notified = "none" /\ Notify("reaction.broadcast")
  \/ Subscribe("first", "reaction.broadcast")
  \/ \E s \in {x \in Sockets : ready[x] = "open"}, msg \in Incoming :
       /\ msg.id = 0 => arrived = <<>>
       /\ OnMessage(s, msg)

SpecFrame == FrameInit /\ [][FrameNext]_vars

\* The ping loop over losses of the connection and reconnects, until the
\* service is destroyed.
PingLoopNext ==
  \/ SocketEvents
  \/ \E t \in rtimers, throws \in BOOLEAN : Reconnect(t, throws)
  \/ RunEffect
  \/ \E t \in ptimers : PingFire(t)
  \/ SyncDestroy
  \/ Tick(RECONNECT_DELAY_MS)

SpecPingLoop == PingInit /\ [][PingLoopNext]_vars

\* ---------------------------------------------------- CountdownComponent

start_celebration ==
  /\ c_is_celebrating' = TRUE
  /\ c_started' = c_started + 1

\* update_countdown after its first line: the simulated or the real countdown
countdown_step ==
  IF c_is_simulating
    THEN LET elapsed == now - c_simulation_start_ts
             diff == SIMULATION_DURATION_MS - elapsed
         IN IF diff <= 0
              THEN /\ c_is_simulating' = FALSE
                   /\ start_celebration
                   /\ UNCHANGED <<target_ts_ms, c_simulation_start_ts,
                                  c_total_ms_x2>>
              ELSE /\ c_total_ms_x2' = 2 * diff
                   /\ UNCHANGED <<target_ts_ms, c_is_celebrating, c_is_simulating,
                                  c_simulation_start_ts, c_started>>
    ELSE LET diff_x2 == 2 * target_ts_ms - get_synced_time_ms_x2
         IN IF diff_x2 <= 0
              THEN /\ start_celebration
                   /\ UNCHANGED <<target_ts_ms, c_is_simulating,
                                  c_simulation_start_ts, c_total_ms_x2>>
              ELSE /\ c_total_ms_x2' = diff_x2
                   /\ UNCHANGED <<target_ts_ms, c_is_celebrating, c_is_simulating,
                                  c_simulation_start_ts, c_started>>

\* faulty variant: update_countdown does not look at is_celebrating
update_countdown_unguarded == countdown_step

update_countdown ==
  IF c_is_celebrating THEN UNCHANGED countdown_vars ELSE countdown_step

simulate_nye ==
  IF c_is_celebrating \/ c_is_simulating
    THEN UNCHANGED countdown_vars
    ELSE /\ c_is_simulating' = TRUE
         /\ c_simulation_start_ts' = now
         /\ UNCHANGED <<target_ts_ms, c_is_celebrating, c_total_ms_x2, c_started>>

\* ngOnInit and the callback of its interval: update_countdown()
UpdateCountdown ==
  /\ task = 0
  /\ c_started < MaxCelebrations
  /\ update_countdown
  /\ UNCHANGED <<env_vars, transport_vars, reaction_vars, greeting_vars,
                 sync_vars>>

\* the user asks for the simulation
SimulateNye ==
  /\ task = 0
  /\ simulate_nye
  /\ UNCHANGED <<env_vars, transport_vars, reaction_vars, greeting_vars,
                 sync_vars>>

\* time passes by d while nothing but the countdown runs, up to time `until`
Elapse(d, until) ==
  /\ task = 0
  /\ now + d <= until
  /\ now' = now + d
  /\ UNCHANGED <<ready, attempts, task, transport_vars, reaction_vars,
                 greeting_vars, sync_vars, countdown_vars>>

\* the targets of the countdown: just reached when the component is created,
\* reached half a simulation later, and out of reach
Targets == {StartTime - UPDATE_INTERVAL_MS,
            StartTime + SIMULATION_DURATION_MS \div 2,
            FarTarget}

\* The countdown component with a clock offset loaded from localStorage or
\* none, over more than one simulation.
CountdownInit ==
  /\ \E stored \in {NoItem, [kind |-> "json", num |-> 2 * 250]} :
       InitAt(StartTime, stored, TRUE)
  /\ geo_available = TRUE
  /\ storage_ok = TRUE
  /\ target_ts_ms \in Targets

CountdownNext ==
  \/ UpdateCountdown
  \/ SimulateNye
  \/ Elapse(UPDATE_INTERVAL_MS, StartTime + 2 * UPDATE_INTERVAL_MS)
  \/ Elapse(SIMULATION_DURATION_MS \div 2, StartTime + MaxCountdown)

SpecCountdown == CountdownInit /\ [][CountdownNext]_vars

\* ------------------------------------------------------------- claims

Allocated == {i \in Ids : calls[i].owner # "none"}

\* C1: every accepted call is settled at most once, it is pending exactly
\* while it is unsettled, once its timeout timer has fired it has been settled
\* exactly once, and the outcome is a success, a remote error or a timeout
\* unless the socket it was sent on is no longer open (the disconnect case).
C1_SettledOnce ==
  \A i \in Allocated :
    /\ calls[i].settles <= 1
    /\ (i \in pending_requests) = (calls[i].settles = 0)
    /\ (calls[i].timer = "fired" => calls[i].settles = 1)
    /\ (calls[i].settles = 1) = (calls[i].outcome # "none")
    /\ \/ calls[i].outcome \in {"none", "success", "remote_error", "timeout"}
       \/ calls[i].outcome = "disconnected" /\ ready[calls[i].sock] # "open"

\* a call was answered, and its timeout timer fired afterwards
C1_Witness ==
  \E i \in Allocated : /\ calls[i].outcome = "success"
                       /\ calls[i].timer = "fired"
                       /\ ready[calls[i].sock] = "open"

\* C2: a call settled by a response is settled by the response that carries
\* its own request id.
C2_MatchedById ==
  \A i \in Allocated :
    calls[i].outcome \in {"success", "remote_error"} => calls[i].by = i

\* the later call is answered while the earlier one is still pending
C2_Witness ==
  \E i, j \in Allocated : /\ i < j
                          /\ i \in pending_requests
                          /\ calls[j].outcome = "success"
                          /\ calls[j].by = j

\* a step in which a socket's close handler runs
CloseHandled ==
  \/ \E s \in Sockets : ready[s] # "closed" /\ ready'[s] = "closed" /\ task' = 0
  \/ task # 0 /\ task' = 0

\* a step in which a socket's error handler runs
ErrorHandled == task = 0 /\ task' # 0

RejectedNow(i) ==
  calls'[i].outcome = "disconnected" /\ calls'[i].settles = 1

\* C3: the close handler settles every request that is pending with a
\* 'disconnected' failure, exactly once, and leaves the map empty and no
\* allocated call unsettled.
C3_CloseRejectsAll ==
  [][CloseHandled =>
       /\ \A i \in pending_requests : RejectedNow(i)
       /\ pending_requests' = {}
       /\ \A i \in Ids : calls'[i].owner # "none" => calls'[i].outcome # "none"
       /\ \A i \in Ids \ pending_requests : calls'[i] = calls[i]]_vars

\* two calls were outstanding when the socket closed
C3_Witness ==
  /\ \A i \in Ids : calls[i].outcome = "disconnected" /\ ready[calls[i].sock] = "closed"
  /\ pending_requests = {}
  /\ ~destroyed

\* C4 as stated: once the error handler has run, nothing is pending and a
\* reconnect is scheduled.
C4_ErrorRejectsAll ==
  task # 0 => pending_requests = {} /\ rtimers # {}

\* C4 amended: the error handler only clears is_connected; the close handler
\* that follows it settles the pending requests as 'disconnected' and
\* schedules the reconnect, RECONNECT_DELAY_MS from now.
C4_CloseAfterErrorRejectsAll ==
  [][/\ ErrorHandled =>
          /\ ~is_connected'
          /\ UNCHANGED <<pending_requests, calls, rtimers, reconnect_timeout>>
     /\ (task # 0 /\ task' = 0) =>
          /\ \A i \in pending_requests : RejectedNow(i)
          /\ pending_requests' = {}
          /\ \E t \in rtimers' : /\ t.id = reconnect_timeout'
                                 /\ t.due = now + RECONNECT_DELAY_MS]_vars

\* the error handler has run while a request is outstanding
C4_Witness == task # 0 /\ pending_requests # {} /\ ~is_connected

\* the send_reaction invocation that this step starts, if any
ReactionInvoked == Len(r_log') = Len(r_log) + 1
LastReaction == r_log'[Len(r_log')]

\* C6: when send_reaction has issued a reaction.send call, a second
\* send_reaction with a valid emoji less than 200 ms later is rejected as rate
\* limited, so the two invocations make exactly one network call; no two
\* reaction.send calls are ever issued less than 200 ms apart.
C6_OneCallPerInterval ==
  /\ \A i, j \in 1..Len(r_log) :
       (/\ i < j
        /\ r_log[i].res = "called"
        /\ r_log[j].emoji \in ALLOWED_EMOJIS
        /\ r_log[j].at - r_log[i].at < REACTION_MIN_SEND_INTERVAL_MS)
       => /\ r_log[j].res = "rate_limited"
          /\ Cardinality({c \in Allocated : /\ calls[c].owner = "reaction"
                                            /\ calls[c].at >= r_log[i].at
                                            /\ calls[c].at <= r_log[j].at}) = 1
  /\ \A c, d \in Allocated :
       (c < d /\ calls[c].owner = "reaction" /\ calls[d].owner = "reaction")
       => calls[d].at - calls[c].at >= REACTION_MIN_SEND_INTERVAL_MS

\* the second invocation comes while the first call is still outstanding and
\* the socket is open
C6_Witness ==
  \E i, j \in 1..Len(r_log) :
    /\ i < j
    /\ r_log[i].res = "called"
    /\ calls[r_log[i].id].outcome = "none"
    /\ r_log[j].at - r_log[i].at < REACTION_MIN_SEND_INTERVAL_MS
    /\ r_log[j].at > r_log[i].at
    /\ r_log[j].emoji \in ALLOWED_EMOJIS
    /\ r_log[j].open
    /\ r_log[j].res = "rate_limited"

\* C7 as stated: last_sent_ts changes only in a step in which a reaction.send
\* call resolves successfully.
C7_StampAfterSuccess ==
  [][r_last_sent_ts' # r_last_sent_ts =>
       \E c \in Ids : /\ calls[c].owner = "reaction"
                      /\ calls[c].outcome = "none"
                      /\ calls'[c].outcome = "success"]_vars

\* C7 amended: last_sent_ts is set to the time of the invocation when
\* send_reaction passes its three checks, before the reaction.send call is
\* issued; it changes in no other step, so it is neither updated when the call
\* resolves nor taken back when the call fails.
C7_StampBeforeCall ==
  [][/\ (ReactionInvoked /\ LastReaction.res \in {"called", "threw"})
          => r_last_sent_ts' = now
     /\ r_last_sent_ts' # r_last_sent_ts
          => ReactionInvoked /\ LastReaction.res \in {"called", "threw"}]_vars

\* a reaction.send call has failed and its time is still the 'last sent' time
C7_Witness ==
  \E c \in Allocated : /\ calls[c].owner = "reaction"
                       /\ calls[c].outcome \in {"remote_error", "timeout"}
                       /\ r_last_sent_ts = calls[c].at

\* C8: a send_reaction with a disallowed emoji, inside the cool-down or
\* without an open connection makes no network call and leaves last_sent_ts
\* and is_sending as they are.
C8_LocalRejection ==
  [][(/\ ReactionInvoked
      /\ \/ LastReaction.emoji \notin ALLOWED_EMOJIS
         \/ now - r_last_sent_ts < REACTION_MIN_SEND_INTERVAL_MS
         \/ ~IsOpen)
     => /\ LastReaction.res \notin {"called"}
        /\ UNCHANGED <<request_id, pending_requests, calls>>
        /\ UNCHANGED <<r_last_sent_ts, r_is_sending>>]_vars

\* C5 as stated: when a send_greeting has asked for the position, a second
\* send_greeting less than 5000 ms later does not ask again, and the two do
\* not both issue a greeting.send call.
C5_OneAcquisition ==
  \A i, j \in 1..Len(g_log) :
    (/\ i < j
     /\ g_log[i].geo
     /\ g_log[j].at - g_log[i].at < GREETING_MIN_SEND_INTERVAL_MS)
    => /\ ~g_log[j].geo
       /\ ~(g_log[i].res = "called" /\ g_log[j].res = "called")

\* the offset that the spec prescribes, in half milliseconds: that of the
\* last successful sample, else the number persisted at construction, else 0
ExpectedOffset_x2 ==
  IF samples.n > 0 THEN 2 * samples.T - (samples.s + samples.r)
  ELSE IF storage0.kind = "json" THEN storage0.num
  ELSE 0

\* C9: get_synced_time() is local time plus the offset of the most recent
\* successful ping sample, or the persisted offset if no sample has succeeded,
\* or zero if nothing usable was persisted.
C9_SyncedTime == get_synced_time_ms_x2 = 2 * now + ExpectedOffset_x2

\* a sample has succeeded, a later ping has failed, and the offset differs
\* from the persisted one the service started with
C9_Witness ==
  /\ samples.n > 0
  /\ storage0.kind = "json"
  /\ offset_ms_x2 # storage0.num
  /\ \E c \in Allocated : /\ calls[c].owner = "ping"
                          /\ calls[c].at > samples.s
                          /\ calls[c].outcome \in {"remote_error", "disconnected"}

\* C10: a pong for the ping sent at s, received at r, reporting server time T
\* sets the offset to T - (s + (r - s)/2); with s = 1000, r = 1200, T = 5000
\* that is 3900.
C10_PongOffset ==
  [][samples'.n = samples.n + 1 =>
       \E c \in Ids :
         /\ calls[c].owner = "ping"
         /\ calls[c].outcome = "none"
         /\ calls'[c].outcome = "success"
         /\ LET s == calls[c].at
                r == now
                T == calls'[c].val
            IN /\ offset_ms_x2' = 2 * T - (2 * s + (r - s))
               /\ (s = 1000 /\ r = 1200 /\ T = 5000) => offset_ms_x2' = 2 * 3900]_vars

\* the round trip of the claim, read at local time 1300
C10_Witness ==
  /\ samples = [n |-> 1, s |-> 1000, r |-> 1200, T |-> 5000, ntp |-> TRUE]
  /\ round_trip_ms(samples.s, samples.r) = 200
  /\ estimated_latency_x2(200) = 2 * 100
  /\ local_time_at_server_x2(samples.s, samples.r) = 2 * 1100
  /\ offset_ms_x2 = 2 * 3900
  /\ now = 1300
  /\ get_synced_time_ms_x2 = 2 * 5200

\* a step in which the timeout timer of call i fires
TimerFires(i) == calls[i].timer = "armed" /\ calls'[i].timer = "fired"

\* C11: while no connection is open, call() throws at once and no step
\* allocates a request id, registers a pending request, gives a frame to the
\* socket or arms a timeout timer.
C11_CallWhileNotOpen ==
  [][~IsOpen =>
       /\ request_id' = request_id
       /\ pending_requests' \subseteq pending_requests
       /\ sent' = sent
       /\ \A i \in Ids : calls[i].timer = "none" => calls'[i].timer = "none"
       /\ Call => call_threw']_vars

\* a call was refused while the socket was closing and an earlier request
\* was still pending
C11_Witness ==
  /\ call_threw
  /\ ws # 0
  /\ ready[ws] = "closing"
  /\ request_id = 1
  /\ pending_requests = {1}
  /\ Len(sent) = 1

\* C12: a call that is still pending RPC_TIMEOUT_MS after it was made is
\* rejected with a timeout by its timer and leaves the map, so that no request
\* stays pending any longer; a response that comes for it afterwards changes
\* neither its outcome nor any other call or pending request.
C12_TimeoutAndLateResponse ==
  [][/\ \A i \in Ids :
          (TimerFires(i) /\ i \in pending_requests)
            => /\ now = calls[i].at + RPC_TIMEOUT_MS
               /\ calls'[i].outcome = "timeout"
               /\ calls'[i].settles = 1
               /\ pending_requests' = pending_requests \ {i}
     /\ \A i \in pending_requests' : now' <= calls'[i].at + RPC_TIMEOUT_MS
     /\ \A s \in Sockets, msg \in Responses({7}, {TRUE}) :
          (OnResponse(s, msg) /\ calls[msg.id].outcome = "timeout")
            => /\ UNCHANGED <<pending_requests, calls, request_id>>
               /\ late' = late \cup {msg.id}]_vars

\* a response came for a call that had timed out, while another request is
\* pending
C12_Witness ==
  \E i \in late, j \in pending_requests :
    /\ calls[i].outcome = "timeout"
    /\ calls[i].settles = 1
    /\ calls[i].timer = "fired"
    /\ j # i

\* C13: when the timer of one call rejects it, or call() throws, every other
\* call and pending request stays as it is and so does the connection; a
\* pending request is settled by its own response whatever happened to the
\* others, and call() on an open connection is accepted.
C13_FailureIsLocal ==
  [][/\ \A i \in Ids :
          TimerFires(i)
            => /\ pending_requests' = pending_requests \ {i}
               /\ \A j \in Ids \ {i} : calls'[j] = calls[j]
               /\ UNCHANGED <<request_id, ws, ready, is_connected>>
     /\ (Call /\ ~IsOpen)
          => UNCHANGED <<pending_requests, calls, request_id, ws, ready,
                         is_connected>>
     /\ (Call /\ IsOpen)
          => /\ request_id' = request_id + 1
             /\ pending_requests' = pending_requests \cup {request_id + 1}
             /\ ~call_threw'
     /\ \A s \in Sockets, msg \in Responses({7}, {TRUE}) :
          (OnResponse(s, msg) /\ msg.id \in pending_requests)
            => /\ calls'[msg.id].outcome \in {"success", "remote_error"}
               /\ calls'[msg.id].by = msg.id]_vars

\* the first call has timed out while the second was outstanding, and the
\* second is still pending on the open connection
C13_Witness ==
  /\ calls[1].outcome = "timeout"
  /\ 2 \in pending_requests
  /\ calls[2].at < calls[1].due
  /\ IsOpen
  /\ ~call_threw

\* C14 as stated: the failure given to the caller of a call that the peer
\* answered with an error object has the code and the message of that object.
C14_RemoteErrorVerbatim ==
  \A i \in Allocated :
    calls[i].outcome = "remote_error"
      => /\ "code" \in DOMAIN calls[i].reason
         /\ calls[i].reason.code = calls[i].peer.code
         /\ calls[i].reason.message = calls[i].peer.message

\* C14 amended: the failure is an Error that has the message of the peer's
\* error object, unchanged, and nothing else of it: the code is not passed on.
C14_RemoteErrorMessage ==
  \A i \in Allocated :
    calls[i].outcome = "remote_error"
      => /\ calls[i].peer \in RpcErrors
         /\ DOMAIN calls[i].reason = {"message"}
         /\ calls[i].reason.message = calls[i].peer.message

\* two calls were answered with different error objects
C14_Witness ==
  \E i, j \in Allocated :
    /\ calls[i].outcome = "remote_error"
    /\ calls[j].outcome = "remote_error"
    /\ calls[i].peer.code # calls[j].peer.code
    /\ calls[i].reason.message = "Method not found"
    /\ calls[j].reason.message = "remote"

\* a step in which call i is settled by a response
Answered(i) ==
  calls[i].outcome = "none" /\ calls'[i].outcome \in {"success", "remote_error"}

\* C15: only a message without an id is given to the observers: it goes to
\* those that are subscribed to its method, and the step changes no call and no
\* pending request; a response settles only the pending request of its own id
\* and reaches no observer, and a call that is not pending is settled by no
\* message.
C15_InboundDispatch ==
  [][/\ arrived' # arrived
          => /\ \E method \in Methods :
                  arrived' = Append(arrived, [method |-> method, id |-> 0])
             /\ UNCHANGED <<pending_requests, calls, request_id>>
             /\ \A u \in Subscribers :
                  observers'[u] =
                    IF /\ observers[u].state = "on"
                       /\ observers[u].method = arrived'[Len(arrived')].method
                      THEN [observers[u] EXCEPT !.got = Append(@, Len(arrived'))]
                      ELSE observers[u]
     /\ \A i \in Ids :
          Answered(i)
            => /\ i \in pending_requests
               /\ calls'[i].by = i
               /\ pending_requests' = pending_requests \ {i}
               /\ \A j \in Ids \ {i} : calls'[j] = calls[j]
               /\ UNCHANGED <<observers, arrived>>
     /\ \A i \in Ids \ pending_requests :
          calls[i].owner # "none" => calls'[i] = calls[i]]_vars

\* a response has settled one call while another is pending and an observer
\* has been given a notification
C15_Witness ==
  \E i \in Allocated, j \in pending_requests, u \in Subscribers :
    /\ calls[i].outcome = "success"
    /\ calls[i].by = i
    /\ calls[j].outcome = "none"
    /\ observers[u].got # <<>>

\* the notifications of the method of observer u that came in since it
\* subscribed, in the order in which they came in
Expected(u) ==
  SelectSeq([k \in 1..Len(arrived) |-> k],
            LAMBDA k : /\ k > observers[u].since
                       /\ arrived[k].method = observers[u].method)

\* C16: an observer that is subscribed has been given exactly the
\* notifications of its method that came in since it subscribed, each once and
\* in the order of arrival, which depends on no other observer; an observer
\* that is not subscribed is given nothing.
C16_FanOut ==
  \A u \in Subscribers :
    IF observers[u].state = "on"
      THEN observers[u].got = Expected(u)
      ELSE observers[u].got = <<>>

\* two observers of the same method, one of which subscribed after the first
\* notification, and a notification of the other method
C16_Witness ==
  \E u, v \in Subscribers :
    /\ observers[u].state = "on"
    /\ observers[v].state = "on"
    /\ observers[u].method = observers[v].method
    /\ Len(arrived) = MaxNotifications
    /\ \E k \in 1..Len(arrived) : arrived[k].method # observers[u].method
    /\ Len(observers[u].got) > Len(observers[v].got)
    /\ observers[v].got # <<>>

\* the frames without an id that were given to a socket
NotificationsSent == {k \in 1..Len(sent) : sent[k].id = 0}

\* C17: notify(method) on an open connection gives the socket one frame
\* without an id; without an open connection it gives it nothing and raises
\* nothing; either way no call, pending request or request id changes, and a
\* frame reaches a socket only in the step of the call() or notify() that
\* sends it, on a connection that is open then: nothing is kept for later.
C17_NotifyOrDrop ==
  [][/\ \A method \in Methods :
          Notify(method)
            => /\ UNCHANGED <<request_id, pending_requests, calls, call_threw,
                              ws, ready, is_connected>>
               /\ IF IsOpen
                    THEN /\ sent' = Append(sent, [sock |-> ws, id |-> 0,
                                                  method |-> method])
                         /\ notified' = "sent"
                    ELSE /\ sent' = sent
                         /\ notified' = "dropped"
     /\ sent' # sent
          => /\ IsOpen
             /\ Len(sent') = Len(sent) + 1
             /\ \/ request_id' = request_id + 1
                \/ \E method \in Methods : Notify(method)]_vars

\* a notify() was dropped while the socket was connecting; the connection
\* has opened since and a call is pending, and no frame without an id has
\* been sent
C17_Witness ==
  /\ notified = "dropped"
  /\ IsOpen
  /\ pending_requests # {}
  /\ NotificationsSent = {}
  /\ Len(sent) = request_id

\* the sockets that are connecting or open
Live == {s \in Sockets : ready[s] \in {"connecting", "open"}}

\* C18 as stated: connect() invoked while the transport's socket is open or
\* still connecting creates no socket and changes nothing.
C18_ConnectIdempotent ==
  [][\A throws \in BOOLEAN :
       (Connect(throws) /\ ws \in Live)
         => UNCHANGED <<ws, ready, attempts, rtimers, reconnect_timeout>>]_vars

\* C19: at most one socket is connecting or open, and it is the one the
\* transport holds in `ws`.
C19_OneLiveConnection ==
  /\ Cardinality(Live) <= 1
  /\ \A s \in Live : ws = s

\* the third socket is open after two reconnects
C19_Witness ==
  /\ ready[1] = "closed"
  /\ ready[2] = "closed"
  /\ ready[3] = "open"
  /\ ws = 3
  /\ is_connected

\* C20: the request frames carry strictly increasing ids, one frame per id,
\* whatever socket they went to; the ids allocated are 1..request_id, and
\* every pending request is that of one of them.
C20_FreshIds ==
  /\ \A k, l \in 1..Len(sent) : k < l => sent[k].id < sent[l].id
  /\ \A k \in 1..Len(sent) : /\ sent[k].id \in 1..request_id
                               /\ calls[sent[k].id].sock = sent[k].sock
  /\ Allocated = 1..request_id
  /\ Len(sent) = request_id
  /\ pending_requests \subseteq Allocated

\* two calls were made on different sockets, before and after a reconnect,
\* and the first is long settled
C20_Witness ==
  /\ Len(sent) = 2
  /\ sent[1].id = 1
  /\ sent[2].id = 2
  /\ sent[1].sock = 1
  /\ sent[2].sock = 2
  /\ pending_requests = {2}

\* the transport holds no connection: its socket is closed and the handlers
\* of the close have run
Disconnected == ~destroyed /\ task = 0 /\ ws # 0 /\ ready[ws] = "closed"

\* this step runs ws.onclose, or a connect() in which `new WebSocket` throws
LossOrFailure ==
  \/ task' = 0 /\ (task # 0 \/ \E s \in Sockets : ready[s] # "closed"
                                                   /\ ready'[s] = "closed")
  \/ attempts' = attempts + 1 /\ ws' = ws

\* this step fires a reconnect timer
ReconnectFires ==
  /\ destroyed' = destroyed
  /\ \E t \in rtimers \ rtimers' : t.due <= now

\* the reconnect timer is pending
ReconnectPending == \E t \in rtimers : t.id = reconnect_timeout

\* C21: while the transport is not torn down, every loss of the connection
\* and every failed attempt arms the reconnect timer for 5000 ms later, the
\* timer stays pending while the transport is disconnected, its firing is a
\* new attempt, and every disconnected state is followed by a further attempt
\* (as far as the bounds on attempts and time let the model go)
C21_ReconnectForever ==
  /\ [][~destroyed' /\ LossOrFailure =>
          \E t \in rtimers' : /\ t.id = reconnect_timeout'
                              /\ t.due = now + RECONNECT_DELAY_MS]_vars
  /\ [][ReconnectFires => attempts' = attempts + 1]_vars
  /\ [](Disconnected => ReconnectPending)
  /\ \A n \in 1..(MaxAttempts - 1) :
       (Disconnected /\ attempts = n
          /\ \A t \in rtimers : t.due <= MaxTime)
         ~> (attempts > n \/ destroyed)

\* the third attempt, made after a loss of the connection and an attempt in
\* which `new WebSocket` threw, is open
C21_Witness ==
  /\ ~destroyed
  /\ ready[1] = "closed" /\ ready[2] = "unused" /\ ready[3] = "open"
  /\ attempts = 3
  /\ now >= StartTime + 2 * RECONNECT_DELAY_MS

\* the time.ping calls this step issues
NewPings == {i \in Ids : calls[i].owner = "none" /\ calls'[i].owner = "ping"}

\* the interval timer of the ping loop is live and fires next at time `due`
PingLoopDue(due) == \E t \in ptimers : t.id = ping_interval /\ t.due = due

FailedPings ==
  {i \in Woken : calls[i].owner = "ping" /\ calls'[i].outcome # "success"}

\* C23: a step in which a time.ping fails (by timeout, by the loss of the
\* connection or by an error response) changes nothing of the estimator:
\* offset_ms, the NTP flag, the stored offset and the interval of the ping
\* loop are as before; and the ping loop is live whenever the effect has run
\* on a connected transport, whatever has failed before
C23_FailedPingSwallowed ==
  /\ [][FailedPings # {} => UNCHANGED sync_vars]_vars
  /\ [](is_connected /\ ~effect_dirty
          => \E t \in ptimers : t.id = ping_interval
                                /\ t.due <= now + PING_INTERVAL_MS)

\* the first ping got an error response, a later ping was issued and has
\* timed out, and the estimate is still the one loaded at construction
C23_Witness ==
  /\ calls[1].owner = "ping" /\ calls[1].outcome = "remote_error"
  /\ calls[2].owner = "ping" /\ calls[2].outcome = "timeout"
  /\ calls[2].at > calls[1].at
  /\ offset_ms_x2 = load_stored_offset(storage0) /\ offset_ms_x2 # 0
  /\ storage = storage0
  /\ ~is_ntp_synced

\* C24: a step in which a ping sample succeeds sets offset_ms to the offset
\* computed from that sample and, when localStorage can be written, stores
\* the same number; so once a sample has succeeded the stored offset is
\* offset_ms
C24_SamplePersisted ==
  /\ [][samples'.n # samples.n
          => /\ offset_ms_x2' = pong_offset_x2(samples'.T, samples'.s, samples'.r)
             /\ storage' = IF storage_ok
                             THEN [kind |-> "json", num |-> offset_ms_x2']
                             ELSE storage]_vars
  /\ [](samples.n > 0 /\ storage_ok
          => storage = [kind |-> "json", num |-> offset_ms_x2])

\* two samples have succeeded, the second has replaced the offset of the
\* first in memory and in localStorage, which held another number before
C24_Witness ==
  /\ samples.n = 2
  /\ storage_ok
  /\ storage0.kind = "json"
  /\ storage = [kind |-> "json", num |-> offset_ms_x2]
  /\ offset_ms_x2 # storage0.num

\* the last successful sample reported NTP lock
LastSampleLocked == samples.n > 0 /\ samples.ntp

\* C25: sync_status is 'synced' exactly when the transport is connected and
\* the last sample reported NTP lock, 'connected' exactly when it is
\* connected without that, 'cached' exactly when it is not connected and
\* offset_ms is not 0, 'device' exactly when it is not connected and
\* offset_ms is 0
C25_StatusTable ==
  /\ sync_status = "synced" <=> is_connected /\ LastSampleLocked
  /\ sync_status = "connected" <=> is_connected /\ ~LastSampleLocked
  /\ sync_status = "cached" <=> ~is_connected /\ offset_ms_x2 # 0
  /\ sync_status = "device" <=> ~is_connected /\ offset_ms_x2 = 0
  /\ sync_status = "device" => offset_ms_x2 = 0

\* the last sample reported NTP lock, the connection is lost since and the
\* status is 'cached'
C25_Witness ==
  /\ LastSampleLocked
  /\ ~is_connected
  /\ sync_status = "cached"

\* a time.ping call succeeds in this step
PingSucceeds ==
  \E i \in Woken : calls[i].owner = "ping" /\ calls'[i].outcome = "success"

\* C26: until a ping sample succeeds offset_ms is what was loaded from
\* localStorage at construction; a step changes offset_ms or the stored
\* offset only if a time.ping succeeds in it, so no send_reaction,
\* send_greeting, notify() or notification that comes in changes them
C26_OffsetFrame ==
  /\ [](samples.n = 0 => /\ offset_ms_x2 = load_stored_offset(storage0)
                         /\ storage = storage0)
  /\ [][offset_ms_x2' # offset_ms_x2 \/ storage' # storage => PingSucceeds]_vars
  /\ [][r_log' # r_log \/ g_log' # g_log \/ notified' # notified
          \/ arrived' # arrived
          \/ (\E i \in Woken : calls[i].owner \in {"reaction", "greeting"})
        => UNCHANGED <<offset_ms_x2, storage>>]_vars

\* a reaction.send has succeeded, a greeting.send is settled, notify() has
\* sent and a notification was given to a subscriber: the offset is the one
\* loaded at construction
C26_Witness ==
  /\ \E i \in Ids : calls[i].owner = "reaction" /\ calls[i].outcome = "success"
  /\ \E i \in Ids : calls[i].owner = "greeting" /\ calls[i].outcome # "none"
  /\ notified = "sent"
  /\ \E u \in Subscribers : observers[u].got # <<>>
  /\ offset_ms_x2 = load_stored_offset(storage0)
  /\ offset_ms_x2 # 0
  /\ storage = storage0

\* C27 as stated: a send_greeting less than 5000 ms after the last accepted
\* send, without an open connection or without geolocation does not ask for
\* the position, makes no network call and leaves last_sent_ts as it is
C27_LocalRejection ==
  [][(/\ Len(g_log') = Len(g_log) + 1
      /\ \/ now - g_last_sent_ts < GREETING_MIN_SEND_INTERVAL_MS
         \/ ~IsOpen
         \/ ~geo_available)
     => /\ geo_waits' = geo_waits
        /\ ~g_is_locating'
        /\ UNCHANGED <<request_id, pending_requests, calls, sent>>
        /\ g_last_sent_ts' = g_last_sent_ts]_vars

\* the four failures the claim names, by GeolocationPositionError.code
GeoFailure(code) ==
  CASE code = 1 -> "Location permission denied"
    [] code = 2 -> "Location unavailable"
    [] code = 3 -> "Location request timed out"
    [] code \notin {1, 2, 3} -> "Location error"

\* C28: when the geolocation collaborator fails, the error state is set to the
\* message of the failure (permission denied, position unavailable, timeout,
\* or unknown for any other code), the invocation ends as failed, is_locating
\* and is_sending are off, and no greeting.send call is made: nothing of the
\* transport and not last_sent_ts changes
C28_GeoFailureSurfaced ==
  [][\A w \in geo_waits, code \in GeoErrorCodes :
       GeoReject(w, code)
         => /\ g_error' = GeoFailure(code)
            /\ g_log'[w.inv].res = "geo_failed"
            /\ ~g_is_locating' /\ ~g_is_sending'
            /\ UNCHANGED <<call_vars, g_last_sent_ts, g_last_location>>]_vars

\* the position was refused: the error says so, the invocation has failed
\* and no call was ever made
C28_Witness ==
  /\ g_error = "Location permission denied"
  /\ \E k \in 1..Len(g_log) : g_log[k].res = "geo_failed" /\ g_log[k].geo
  /\ request_id = 0
  /\ sent = <<>>
  /\ IsOpen

\* C29: a subscribed observer is given something only in a step in which a
\* notification comes in, and then that notification alone; a step that
\* subscribes, opens, closes or replaces the connection gives no observer
\* anything and sends nothing, so what came in before the subscription or
\* was broadcast while no socket was open is never delivered
C29_NoReplay ==
  /\ [][\A u \in Subscribers :
          observers'[u].state = "on" /\ observers'[u].got # observers[u].got
            => /\ Len(arrived') = Len(arrived) + 1
               /\ observers[u].state = "on"
               /\ observers'[u].got = Append(observers[u].got, Len(arrived'))]_vars
  /\ [][ready' # ready \/ attempts' # attempts => UNCHANGED <<sent, arrived>>]_vars

\* a notification came in on the first connection before the observer
\* subscribed; the observer subscribed, the connection was lost and replaced,
\* and a notification of the same method came in on the second connection:
\* the observer was given the second notification only
C29_Witness ==
  /\ ready[1] = "closed" /\ ready[2] = "open"
  /\ \E u \in Subscribers :
       /\ observers[u].state = "on"
       /\ observers[u].since = 1
       /\ arrived[1].method = observers[u].method
       /\ observers[u].got = <<2>>

\* C30 as stated: once the transport is torn down no reconnect timer is
\* pending, no step schedules one and no step makes a new connection
C30_NoReconnectAfterTeardown ==
  /\ [](destroyed => rtimers = {} /\ reconnect_timeout = 0)
  /\ [][destroyed => /\ rtimers' = rtimers
                     /\ attempts' = attempts
                     /\ ws' = ws]_vars

\* C31 as stated: is_connected is true exactly when the socket of the
\* transport is open, so call() accepts a request exactly when is_connected
\* is true
C31_FlagIsOpen == is_connected <=> IsOpen

\* C32: at most one reconnect timer is pending, and it is the one whose handle
\* is in reconnect_timeout: a schedule_reconnect that finds a timer pending
\* has cleared it
C32_OneReconnectTimer ==
  /\ Cardinality(rtimers) <= 1
  /\ \A t \in rtimers : t.id = reconnect_timeout

\* two sockets were closed one after the other before any timer could fire:
\* the reconnect was scheduled twice and only the second timer is pending
C32_Witness ==
  /\ now = StartTime
  /\ n_rt = 2
  /\ ready[1] = "closed" /\ ready[2] = "closed"
  /\ rtimers = {[id |-> 2, due |-> now + RECONNECT_DELAY_MS]}

\* C33: at most one interval timer of the ping loop is live, and it is the
\* one whose handle is in ping_interval; once the effect has run on a
\* transport that is not connected, and once the service is destroyed, none
\* is live
C33_OnePingInterval ==
  /\ Cardinality(ptimers) <= 1
  /\ \A t \in ptimers : t.id = ping_interval
  /\ ~is_connected /\ ~effect_dirty => ptimers = {}
  /\ ~sync_alive => ptimers = {}

\* the ping loop was started on the first connection, stopped when it was
\* lost and started again on the second connection: one interval is live
C33_Witness ==
  /\ ready[1] = "closed" /\ ready[2] = "open"
  /\ is_connected /\ ~effect_dirty
  /\ n_pt = 2
  /\ Cardinality(ptimers) = 1
  /\ calls[1].sock = 1 /\ calls[2].sock = 2

\* the time.ping calls that have succeeded
Pongs == {i \in Ids : calls[i].owner = "ping" /\ calls[i].outcome = "success"}

\* C34 as stated: when no time.ping is pending, the offset in effect is the
\* one of the ping that was sent last among those that succeeded
C34_NewestPingWins ==
  (Pongs # {} /\ \A i \in Ids : calls[i].owner = "ping" => i \notin pending_requests)
    => \A i \in Pongs : calls[i].at <= samples.s

\* C34, amended: a step in which a time.ping succeeds sets the offset to the
\* one computed from that ping, from the time it was sent and the time of
\* this step, whether or not a ping sent later has succeeded before
C34_LastPongWins ==
  [][\A i \in Woken :
       calls[i].owner = "ping" /\ calls'[i].outcome = "success"
         => /\ offset_ms_x2' = pong_offset_x2(calls'[i].val, calls[i].at, now)
            /\ samples'.s = calls[i].at]_vars

\* the pong of the second ping came first, the pong of the first ping came
\* last: the offset in effect is the one of the first ping
C34_Witness ==
  /\ Pongs = {1, 2}
  /\ calls[2].at > calls[1].at
  /\ samples.n = 2
  /\ samples.s = calls[1].at
  /\ offset_ms_x2 = pong_offset_x2(calls[1].val, calls[1].at, samples.r)
  /\ offset_ms_x2 # pong_offset_x2(calls[2].val, calls[2].at, samples.r)

\* C35 as stated: a step changes the last_sent_ts of the greeting service only
\* if it gives a greeting.send request to the socket
C35_StampOnlyWhenSent ==
  [][g_last_sent_ts' # g_last_sent_ts
       => \E k \in (Len(sent) + 1)..Len(sent') :
            sent'[k].method = "greeting.send"]_vars

\* C36: a step in which a send_greeting fails at the geolocation step leaves
\* last_sent_ts as it is, and a send_greeting is rejected as rate limited
\* only if the position of an earlier invocation has arrived less than
\* 5000 ms after that invocation began, never because of invocations that
\* failed at the geolocation step
C36_GeoFailureNoCooldown ==
  /\ [][(\E k \in 1..Len(g_log) : /\ g_log[k].res # "geo_failed"
                                  /\ g_log'[k].res = "geo_failed")
          => g_last_sent_ts' = g_last_sent_ts]_vars
  /\ [][(/\ Len(g_log') = Len(g_log) + 1
         /\ g_log'[Len(g_log')].res = "rate_limited")
          => \E k \in 1..Len(g_log) :
               /\ g_log[k].res \in {"called", "threw"}
               /\ now - g_log[k].at < GREETING_MIN_SEND_INTERVAL_MS]_vars

\* the first send_greeting failed at the geolocation step; a second one, at
\* the same instant, has passed the cool-down check and asks for the position
C36_Witness ==
  /\ Len(g_log) = 2
  /\ g_log[1].res = "geo_failed"
  /\ g_log[2].res = "locating"
  /\ g_log[2].at = g_log[1].at
  /\ g_last_sent_ts = 0
  /\ g_error = "null"

\* C37 as stated: the is_sending flag of the reaction service is true exactly
\* when a reaction.send call is outstanding
C37_SendingIffOutstanding ==
  r_is_sending <=> \E i \in pending_requests : calls[i].owner = "reaction"

\* this step ends a send_greeting in its finally block: the geolocation or
\* call() has failed, or the greeting.send call is settled
GreetingEnds ==
  \/ \E k \in 1..Len(g_log) : /\ g_log'[k].res \in {"geo_failed", "threw"}
                              /\ g_log'[k].res # g_log[k].res
  \/ \E i \in Woken : calls[i].owner = "greeting"

\* this step is a send_greeting that one of the three checks rejects
GreetingRejected ==
  /\ Len(g_log') = Len(g_log) + 1
  /\ g_log'[Len(g_log')].res \in {"rate_limited", "not_connected", "no_geolocation"}

\* C38: a step that ends a send_greeting in its finally block leaves
\* is_locating and is_sending false; a send_greeting that is rejected by a
\* check leaves both as they are; is_sending becomes true only in the step in
\* which the position of an invocation arrives and its call is accepted
C38_GreetingFlags ==
  /\ [][GreetingEnds => ~g_is_locating' /\ ~g_is_sending']_vars
  /\ [][GreetingRejected => UNCHANGED <<g_is_locating, g_is_sending>>]_vars
  /\ [][~g_is_sending /\ g_is_sending'
          => \E k \in 1..Len(g_log) : /\ g_log[k].res = "locating"
                                      /\ g_log'[k].res = "called"]_vars

\* the first send_greeting was answered with a failure, the second was
\* rejected as rate limited: both flags are false
C38_Witness ==
  /\ Len(g_log) = 2
  /\ g_log[1].res = "called"
  /\ calls[g_log[1].id].outcome = "remote_error"
  /\ g_log[2].res = "rate_limited"
  /\ ~g_is_locating /\ ~g_is_sending

\* C39: once is_celebrating is true no step changes anything of the
\* countdown: is_celebrating stays true, update_countdown leaves the time
\* remaining as it is and does not invoke start_celebration, simulate_nye
\* starts no simulation; start_celebration is invoked at most once, and
\* exactly when is_celebrating is true; while a simulation runs simulate_nye
\* does not start it again
C39_CelebrationAbsorbing ==
  /\ [][c_is_celebrating => UNCHANGED countdown_vars]_vars
  /\ [](c_started <= 1)
  /\ [](c_is_celebrating <=> c_started = 1)
  /\ [][c_is_simulating => c_simulation_start_ts' = c_simulation_start_ts]_vars

\* the celebration was started at the end of a simulation; time has passed
\* since, the target of the real countdown is still ahead and no simulation
\* is running
C39_Witness ==
  /\ c_is_celebrating
  /\ c_started = 1
  /\ ~c_is_simulating
  /\ now > c_simulation_start_ts + SIMULATION_DURATION_MS
  /\ 2 * target_ts_ms - get_synced_time_ms_x2 > 0
  /\ c_total_ms_x2 > 0

====
